---- MODULE Spec2Model ----
(***************************************************************************)
(* A model of the subtitle translation queue of TransSubAuto: the job      *)
(* list and the handlers of src/App.tsx, the remote call of                *)
(* src/services/geminiService.ts and the cue utilities (vttUtils).         *)
(*                                                                         *)
(* Text is modelled as a sequence of tokens.  A token is the header text   *)
(* HDR, the blank-line separator NL2, or a fragment streamed by the remote *)
(* model: a record naming the chunk and the attempt that produced it, its  *)
(* position in the stream, the number of timestamp arrows ("-->") it       *)
(* completes, whether it is whitespace only and whether it holds a framing *)
(* marker ("=== TRANSLATED VTT ===").  The worker is a single              *)
(* JavaScript task: every action below runs the code from one await to the *)
(* next, and the user's handlers interleave only at those awaits.          *)
(***************************************************************************)
EXTENDS Integers, Sequences, FiniteSets, TLC

VARIABLES
  jobs,                   \* useState<TranslationJob[]>: the live job list
  nextId,                 \* the clock behind Date.now() + index
  runs,                   \* the number of runs started so far
  isProcessingQueue,      \* useState<boolean>
  notification,           \* useState<AppNotification | null>, by its kind
  needsProcessing,        \* useState<boolean>
  isApiKeySet,            \* useState<boolean>
  chunkDelay,             \* useState<number>: the live inter-chunk delay
  stopRequest,            \* useRef(false)
  pc,                     \* the await the worker is suspended at
  closure,                \* what handleProcessQueue captured: jobs, chunkDelay
  jobIndex,               \* position of `job` in the captured list
  hasError,               \* let hasError
  finalTranslatedContent, \* let finalTranslatedContent
  chatSession,            \* let chatSession
  i,                      \* chunk index of the for loop (0-based)
  attempt,                \* attempt number of the retry loop (1-based)
  chunkAccumulatedText,   \* let chunkAccumulatedText
  calls,                  \* log of the remote calls made for the current job
  lastFailure,            \* the error the catch of the attempt last caught
  lastWait,               \* the delay the worker is suspended on
  probe                   \* a call of a pure function, with its result

userVars == <<jobs, nextId, runs, isProcessingQueue, notification, needsProcessing,
              isApiKeySet, chunkDelay, stopRequest>>
workerVars == <<pc, closure, jobIndex, hasError, finalTranslatedContent,
                chatSession, i, attempt, chunkAccumulatedText, calls,
                lastFailure, lastWait>>
vars == <<userVars, workerVars, probe>>

----------------------------------------------------------------------------
(* Program constants *)

CUES_PER_CHUNK == 25
MAX_CHUNK_RETRIES == 3
DefaultChunkDelay == 5
FileDelay == 12
ChunkDelayStep == 5
ChunkDelayCap == 30
BackoffBase == 1500
CooldownPeriod == 15000
ExcessAllowance == 5
SufficientPercent == 95

(* Bounds of the model *)

MaxSelections == 1   \* selections after which the clock stops issuing ids
MaxRuns == 2         \* runs of the queue
MaxFragments == 2    \* fragments one stream delivers
MaxJobs == 2         \* files of one selection: the stride of the job ids
MaxUnits == 100      \* cue count of the original in a call of the validator
MaxCues == 4         \* cues in a list given to groupCuesIntoChunks
MaxChunkSize == 3    \* chunk size given to groupCuesIntoChunks, either sign
MaxChars == 6        \* characters of a text given to splitVttIntoCues
MaxDrops == 2        \* drops after which the clock stops issuing ids
MaxPieces == 2       \* pieces of the message of a send error

(* Tokens of text, and the values that stand for undefined *)
HDR == [kind |-> "hdr", chunk |-> 0, attempt |-> 0, seq |-> 0, units |-> 0,
        ws |-> FALSE, marker |-> FALSE]
NL2 == [kind |-> "nl2", chunk |-> 0, attempt |-> 0, seq |-> 0, units |-> 0,
        ws |-> TRUE, marker |-> FALSE]
Undefined == <<[kind |-> "undefined", chunk |-> 0, attempt |-> 0, seq |-> 0,
                units |-> 0, ws |-> FALSE, marker |-> FALSE]>>
NoError == [kind |-> "undefined"]
NoProgress == [current |-> 0, total |-> 0]
NoSession == [job |-> 0, chunk |-> 0, attempt |-> 0]
NoWait == [kind |-> "none", ms |-> 0]
NoFailure == [chunk |-> 0, attempt |-> 0, error |-> NoError]
NoProbe == [fn |-> "none"]
NoClosure == [jobs |-> <<>>, chunkDelay |-> 0]
None == "none"

----------------------------------------------------------------------------
(* Documents.  A document is its header and its cue blocks; a cue block is *)
(* given by the number of timestamp arrows it contains (a NOTE block has   *)
(* none, two cues with no blank line between them form a block of two).    *)

Documents ==
  [ blank |-> [blank |-> TRUE,  header |-> FALSE, cues |-> <<>>],
    hdr   |-> [blank |-> FALSE, header |-> TRUE,  cues |-> <<>>],
    one   |-> [blank |-> FALSE, header |-> FALSE, cues |-> <<1>>],
    small |-> [blank |-> FALSE, header |-> TRUE,  cues |-> <<1, 0, 2>>],
    long  |-> [blank |-> FALSE, header |-> TRUE,
               cues  |-> [k \in 1..(CUES_PER_CHUNK + 1) |-> 1]] ]

Files == DOMAIN Documents

RECURSIVE SumSeq(_)
SumSeq(s) == IF s = <<>> THEN 0 ELSE Head(s) + SumSeq(Tail(s))

Min(a, b) == IF a <= b THEN a ELSE b

(* splitVttIntoCues, on a document: the header (trimmed) and the cue blocks *)
splitVttIntoCues(file) ==
  [header |-> IF Documents[file].header THEN <<HDR>> ELSE <<>>,
   cues   |-> Documents[file].cues]

(* groupCuesIntoChunks: slices of chunkSize cues, in order *)
groupCuesIntoChunks(cues, chunkSize) ==
  LET n == (Len(cues) + chunkSize - 1) \div chunkSize
  IN  [c \in 1..n |->
         SubSeq(cues, (c - 1) * chunkSize + 1, Min(c * chunkSize, Len(cues)))]

(* countCues of a text: the number of arrows in it *)
countCues(text) ==
  IF text = Undefined THEN 0
  ELSE SumSeq([k \in 1..Len(text) |-> text[k].units])

(* countCues of a chunk and of the raw input of a file *)
ChunkUnits(chunk) == SumSeq(chunk)
InputUnits(file) == SumSeq(Documents[file].cues)

IsWhite(t) == t.ws

(* String.prototype.trim *)
RECURSIVE TrimLeft(_)
TrimLeft(text) ==
  IF text = <<>> THEN <<>>
  ELSE IF IsWhite(Head(text)) THEN TrimLeft(Tail(text)) ELSE text

RECURSIVE TrimRight(_)
TrimRight(text) ==
  IF text = <<>> THEN <<>>
  ELSE IF IsWhite(text[Len(text)])
       THEN TrimRight(SubSeq(text, 1, Len(text) - 1)) ELSE text

Trim(text) == TrimRight(TrimLeft(text))

(* validateTranslation: TRUE when it returns, FALSE when it throws *)
isSufficient_Strict(original, translated) ==
  100 * translated > SufficientPercent * original

isSufficient(original, translated) ==
  100 * translated >= SufficientPercent * original

isNotExcessive(original, translated) ==
  translated <= original + ExcessAllowance

CountsAccepted(original, translated) ==
  isSufficient(original, translated) /\ isNotExcessive(original, translated)

validateTranslation(file, finalAiOutput) ==
  CountsAccepted(InputUnits(file), countCues(Trim(finalAiOutput)))

MismatchError(original, translated) ==
  [kind |-> "ValidationFailed", original |-> original,
   translated |-> translated]

ValidationError(file, finalAiOutput) ==
  MismatchError(InputUnits(file), countCues(Trim(finalAiOutput)))

----------------------------------------------------------------------------
(* Errors.  The failure of sendMessageStream is given by what the checks   *)
(* of translateVttWithChat look for in it: msgKey, msgQuota, msgSafety and *)
(* msgRE say that the message contains 'api key not valid', 'quota',       *)
(* 'safety' and 'resource_exhausted', jsonRE that the serialised error     *)
(* contains 'resource_exhausted'.                                          *)

RawErrors ==
  [msgKey : BOOLEAN, msgQuota : BOOLEAN, msgSafety : BOOLEAN,
   msgRE : BOOLEAN, jsonRE : BOOLEAN]

(* the failures the remote call of a run is given: a quota error (429)    *)
(* and a network error                                                    *)
QuotaError ==
  [msgKey |-> FALSE, msgQuota |-> TRUE, msgSafety |-> FALSE, msgRE |-> TRUE,
   jsonRE |-> FALSE]
NetworkError ==
  [msgKey |-> FALSE, msgQuota |-> FALSE, msgSafety |-> FALSE,
   msgRE |-> FALSE, jsonRE |-> FALSE]
SendFailures == {QuotaError, NetworkError}

(* the catch block of translateVttWithChat: the message it rethrows *)
ClassifySendError(raw) ==
  IF raw.msgKey THEN [kind |-> "InvalidKey", re |-> FALSE]
  ELSE IF raw.jsonRE \/ raw.msgQuota THEN [kind |-> "RateLimit", re |-> TRUE]
  ELSE IF raw.msgSafety THEN [kind |-> "Safety", re |-> FALSE]
  ELSE [kind |-> "Failed", re |-> raw.msgRE]

(* an error thrown by the stream while it is drained reaches the retry    *)
(* loop as it is; re: its message contains 'resource_exhausted'           *)
StreamErrors == {[kind |-> "Stream", re |-> FALSE]}

ChunkValidationError(expected, received) ==
  [kind |-> "ChunkValidation", re |-> FALSE,
   expected |-> expected, received |-> received]

(* errorMessage.includes('resource_exhausted') *)
IsRateLimit(error) == error.re

ChunkExhausted(chunkNo, attempts, lastError) ==
  [kind |-> "ChunkExhausted", chunk |-> chunkNo, attempts |-> attempts,
   last |-> lastError]

EmptyFileError == [kind |-> "EmptyFile"]

backoffDelay_Linear(a, error) ==
  BackoffBase * a + (IF IsRateLimit(error) THEN CooldownPeriod ELSE 0)

(* 1500 * Math.pow(2, attempt - 1), plus the cooldown on a rate limit *)
backoffDelay(a, error) ==
  BackoffBase * (2 ^ (a - 1))
    + (IF IsRateLimit(error) THEN CooldownPeriod ELSE 0)

----------------------------------------------------------------------------
(* The job list *)

NewJob(id, file) ==
  [id |-> id, file |-> file, status |-> "queued", translatedVtt |-> Undefined,
   error |-> NoError, chatSession |-> NoSession, progress |-> NoProgress]

(* updateJobStatus: merge the updates into the job of that id, if any *)
updateJobStatus(J, id, updates) ==
  [k \in 1..Len(J) |->
     IF J[k].id = id
     THEN [f \in DOMAIN J[k] |->
             IF f \in DOMAIN updates THEN updates[f] ELSE J[k][f]]
     ELSE J[k]]

JobIds(J) == {J[k].id : k \in 1..Len(J)}
JobOf(J, id) == J[CHOOSE k \in 1..Len(J) : J[k].id = id]
HasQueued(J) == \E k \in 1..Len(J) : J[k].status = "queued"

----------------------------------------------------------------------------
(* The worker: handleProcessQueue.  Its steps are written as functions of  *)
(* a record s holding the value of every variable the run reads or writes, *)
(* so that the code between two awaits composes as the source does.        *)

Cur ==
  [jobs |-> jobs, runs |-> runs, isProcessingQueue |-> isProcessingQueue,
   notification |-> notification, chunkDelay |-> chunkDelay,
   stopRequest |-> stopRequest, pc |-> pc, closure |-> closure,
   jobIndex |-> jobIndex, hasError |-> hasError,
   finalTranslatedContent |-> finalTranslatedContent,
   chatSession |-> chatSession, i |-> i, attempt |-> attempt,
   chunkAccumulatedText |-> chunkAccumulatedText, calls |-> calls,
   lastFailure |-> lastFailure, lastWait |-> lastWait]

Commit(s) ==
  /\ jobs' = s.jobs
  /\ runs' = s.runs
  /\ isProcessingQueue' = s.isProcessingQueue
  /\ notification' = s.notification
  /\ chunkDelay' = s.chunkDelay
  /\ stopRequest' = s.stopRequest
  /\ pc' = s.pc
  /\ closure' = s.closure
  /\ jobIndex' = s.jobIndex
  /\ hasError' = s.hasError
  /\ finalTranslatedContent' = s.finalTranslatedContent
  /\ chatSession' = s.chatSession
  /\ i' = s.i
  /\ attempt' = s.attempt
  /\ chunkAccumulatedText' = s.chunkAccumulatedText
  /\ calls' = s.calls
  /\ lastFailure' = s.lastFailure
  /\ lastWait' = s.lastWait

(* the job of the current iteration, as captured, and what derives from it *)
JobAt(s) == s.closure.jobs[s.jobIndex]
ChunksOf(file) ==
  groupCuesIntoChunks(splitVttIntoCues(file).cues, CUES_PER_CHUNK)
ChunksAt(s) == ChunksOf(JobAt(s).file)
ChunkAt(s) == ChunksAt(s)[s.i + 1]

UpdateJob(s, updates) ==
  [s EXCEPT !.jobs = updateJobStatus(s.jobs, JobAt(s).id, updates)]

SetLastCall(s, result) ==
  [s EXCEPT !.calls[Len(s.calls)].result = result]

FinishRun_KeepsFlag(s, wasStopped) ==
  [s EXCEPT !.notification = IF wasStopped THEN "stopped"
                             ELSE IF s.hasError THEN "error" ELSE "success",
            !.pc = "idle",
            !.closure = NoClosure,
            !.jobIndex = 0,
            !.hasError = FALSE,
            !.finalTranslatedContent = <<>>,
            !.chatSession = NoSession,
            !.i = 0,
            !.attempt = 0,
            !.chunkAccumulatedText = <<>>,
            !.calls = <<>>,
            !.lastWait = NoWait]

(* lines 299-310: the terminal notification, and the flag goes down; the *)
(* variables of the call go out of scope                                  *)
FinishRun(s, wasStopped) ==
  [s EXCEPT !.notification = IF wasStopped THEN "stopped"
                             ELSE IF s.hasError THEN "error" ELSE "success",
            !.isProcessingQueue = FALSE,
            !.pc = "idle",
            !.closure = NoClosure,
            !.jobIndex = 0,
            !.hasError = FALSE,
            !.finalTranslatedContent = <<>>,
            !.chatSession = NoSession,
            !.i = 0,
            !.attempt = 0,
            !.chunkAccumulatedText = <<>>,
            !.calls = <<>>,
            !.lastWait = NoWait]

StartJob_KeepsSession(s, k) ==
  [s EXCEPT !.jobs = updateJobStatus(s.jobs, s.closure.jobs[k].id,
                       [status |-> "processing", translatedVtt |-> <<>>,
                        error |-> NoError]),
            !.jobIndex = k,
            !.finalTranslatedContent = <<>>,
            !.chunkAccumulatedText = <<>>,
            !.i = 0,
            !.attempt = 0,
            !.calls = <<>>,
            !.lastFailure = NoFailure,
            !.pc = "readFile"]

(* lines 160-167: the job is picked up and its file is read *)
StartJob(s, k) ==
  UpdateJob([s EXCEPT !.jobIndex = k,
                      !.finalTranslatedContent = <<>>,
                      !.chatSession = NoSession,
                      !.chunkAccumulatedText = <<>>,
                      !.i = 0,
                      !.attempt = 0,
                      !.calls = <<>>,
                      !.lastFailure = NoFailure,
                      !.pc = "readFile"],
            [status |-> "processing", translatedVtt |-> <<>>,
             error |-> NoError])

NextJob_TakesAnyJob(s, k) ==
  IF k > Len(s.closure.jobs) THEN FinishRun(s, FALSE)
  ELSE IF s.stopRequest THEN FinishRun(s, TRUE)
  ELSE StartJob(s, k)

(* lines 150-156: the head of the job loop, from position k on *)
RECURSIVE NextJob(_, _)
NextJob(s, k) ==
  IF k > Len(s.closure.jobs) THEN FinishRun(s, FALSE)
  ELSE IF s.closure.jobs[k].status # "queued" THEN NextJob(s, k + 1)
  ELSE IF s.stopRequest THEN FinishRun(s, TRUE)
  ELSE StartJob(s, k)

(* lines 289-296: the wait between files *)
hasMoreQueued(s) ==
  \E k \in (s.jobIndex + 1)..Len(s.closure.jobs) :
     s.closure.jobs[k].status = "queued"

AfterJob(s) ==
  IF hasMoreQueued(s)
  THEN [s EXCEPT !.pc = "fileDelay",
                 !.lastWait = [kind |-> "file", ms |-> FileDelay * 1000]]
  ELSE NextJob(s, s.jobIndex + 1)

FailJob_AbortsRun(s, error) ==
  FinishRun(UpdateJob([s EXCEPT !.hasError = TRUE],
                      [status |-> "error", error |-> error,
                       progress |-> NoProgress]),
            FALSE)

FailJob_ClearsOutput(s, error) ==
  AfterJob(UpdateJob([s EXCEPT !.hasError = TRUE],
                     [status |-> "error", error |-> error,
                      translatedVtt |-> <<>>, progress |-> NoProgress]))

(* lines 281-287: the catch of the job *)
FailJob(s, error) ==
  AfterJob(UpdateJob([s EXCEPT !.hasError = TRUE],
                     [status |-> "error", error |-> error,
                      progress |-> NoProgress]))

StopRevert_LeavesProcessing(s) == FinishRun(s, TRUE)

(* lines 185-187 and 199-201, then the breaks of 256 and 270 *)
StopRevert(s) ==
  FinishRun(UpdateJob(s, [status |-> "queued", translatedVtt |-> <<>>,
                          progress |-> NoProgress, error |-> NoError]),
            TRUE)

(* translateVttWithChat up to its await: the prompt form follows the      *)
(* session it is given, and a session is created when there is none       *)
translateVttWithChat(s) ==
  [s EXCEPT !.calls = Append(@,
              [job |-> JobAt(s).id, chunk |-> s.i + 1, attempt |-> s.attempt,
               sent |-> s.chatSession,
               form |-> IF s.chatSession = NoSession THEN "full" ELSE "followup",
               chat |-> IF s.chatSession = NoSession
                        THEN [job |-> JobAt(s).id, chunk |-> s.i + 1,
                              attempt |-> s.attempt]
                        ELSE s.chatSession,
               result |-> "pending"]),
            !.pc = "sending"]

BeginAttempt_KeepsAccumulator(s, a) ==
  IF s.stopRequest THEN StopRevert(s)
  ELSE translateVttWithChat([s EXCEPT !.attempt = a,
                                      !.lastFailure = NoFailure])

BeginAttempt_IgnoresStop(s, a) ==
  translateVttWithChat([s EXCEPT !.attempt = a,
                                 !.chunkAccumulatedText = <<>>,
                                 !.lastFailure = NoFailure])

BeginAttempt_RestartsOutput(s, a) ==
  IF s.stopRequest THEN StopRevert(s)
  ELSE translateVttWithChat([s EXCEPT !.attempt = a,
                                      !.finalTranslatedContent = <<>>,
                                      !.chunkAccumulatedText = <<>>,
                                      !.lastFailure = NoFailure])

(* lines 196-209: the head of the attempt loop *)
BeginAttempt(s, a) ==
  IF s.stopRequest THEN StopRevert(s)
  ELSE translateVttWithChat([s EXCEPT !.attempt = a,
                                      !.chunkAccumulatedText = <<>>,
                                      !.lastFailure = NoFailure])

(* lines 182-194: the head of the chunk loop *)
BeginChunk(s, c) ==
  IF s.stopRequest THEN StopRevert(s)
  ELSE BeginAttempt(
         UpdateJob([s EXCEPT !.i = c],
                   [progress |-> [current |-> c + 1,
                                  total |-> Len(ChunksAt(s))]]),
         1)

Backoff_Compounds(s1, s, error) ==
  [s1 EXCEPT
     !.chunkDelay = IF IsRateLimit(error)
                    THEN Min(@ + ChunkDelayStep, ChunkDelayCap)
                    ELSE @,
     !.pc = "backoff",
     !.lastWait = [kind |-> "backoff",
                   ms |-> backoffDelay(s.attempt, error)]]

Backoff(s1, s, error) ==
  [s1 EXCEPT
     !.chunkDelay = IF IsRateLimit(error)
                    THEN Min(s.closure.chunkDelay + ChunkDelayStep,
                             ChunkDelayCap)
                    ELSE @,
     !.pc = "backoff",
     !.lastWait = [kind |-> "backoff",
                   ms |-> backoffDelay(s.attempt, error)]]

Caught(s, error, session) ==
  SetLastCall([s EXCEPT !.chatSession = session,
                        !.lastFailure = [chunk |-> s.i + 1,
                                         attempt |-> s.attempt,
                                         error |-> error]],
              "failed")

AttemptFailed_ZeroBasedChunk(s, error) ==
  LET s1 == Caught(s, error, NoSession)
  IN  IF s.attempt > MAX_CHUNK_RETRIES
      THEN FailJob(s1, ChunkExhausted(s.i, MAX_CHUNK_RETRIES + 1, error))
      ELSE Backoff(s1, s, error)

AttemptFailed_RecordsError(s, error) ==
  LET s1 == UpdateJob(Caught(s, error, NoSession), [error |-> error])
  IN  IF s.attempt > MAX_CHUNK_RETRIES
      THEN FailJob(s1, ChunkExhausted(s.i + 1, MAX_CHUNK_RETRIES + 1, error))
      ELSE Backoff(s1, s, error)

AttemptFailed_KeepsSession(s, error) ==
  LET s1 == Caught(s, error, s.chatSession)
  IN  IF s.attempt > MAX_CHUNK_RETRIES
      THEN FailJob(s1, ChunkExhausted(s.i + 1, MAX_CHUNK_RETRIES + 1, error))
      ELSE Backoff(s1, s, error)

AttemptFailed_OneMoreRetry(s, error) ==
  LET s1 == Caught(s, error, NoSession)
  IN  IF s.attempt > MAX_CHUNK_RETRIES + 1
      THEN FailJob(s1, ChunkExhausted(s.i + 1, MAX_CHUNK_RETRIES + 1, error))
      ELSE Backoff(s1, s, error)

(* lines 228-253: the catch of the attempt *)
AttemptFailed(s, error) ==
  LET s1 == Caught(s, error, NoSession)
  IN  IF s.attempt > MAX_CHUNK_RETRIES
      THEN FailJob(s1, ChunkExhausted(s.i + 1, MAX_CHUNK_RETRIES + 1, error))
      ELSE Backoff(s1, s, error)

(* lines 270-279: after the last chunk *)
FinishJob(s) ==
  IF validateTranslation(JobAt(s).file, s.finalTranslatedContent)
  THEN AfterJob(UpdateJob(s, [status |-> "completed",
                              translatedVtt |-> Trim(s.finalTranslatedContent),
                              progress |-> NoProgress]))
  ELSE FailJob(s, ValidationError(JobAt(s).file, s.finalTranslatedContent))

ChunkAccepted_Tolerant(chunk, text) ==
  CountsAccepted(ChunkUnits(chunk), countCues(text))

ChunkAccepted_AtLeast(chunk, text) == countCues(text) >= ChunkUnits(chunk)

ChunkAccepted_AtMost(chunk, text) == countCues(text) <= ChunkUnits(chunk)

(* lines 218-221: the chunk check *)
ChunkAccepted(chunk, text) == ChunkUnits(chunk) = countCues(text)

AfterAccept_WaitsWhenStopped(s1, s) ==
  IF s.i < Len(ChunksAt(s)) - 1
  THEN [s1 EXCEPT !.pc = "chunkDelay",
                  !.lastWait = [kind |-> "chunk",
                                ms |-> s.closure.chunkDelay * 1000]]
  ELSE FinishJob(s1)

(* lines 264-272: the wait between chunks, the next chunk or the end *)
AfterAccept(s1, s) ==
  IF s.i < Len(ChunksAt(s)) - 1 /\ ~s.stopRequest
  THEN [s1 EXCEPT !.pc = "chunkDelay",
                  !.lastWait = [kind |-> "chunk",
                                ms |-> s.closure.chunkDelay * 1000]]
  ELSE IF s.i < Len(ChunksAt(s)) - 1
  THEN BeginChunk(s1, s.i + 1)
  ELSE FinishJob(s1)

AcceptChunk_Overwrites(s) ==
  AfterAccept(SetLastCall(
                [s EXCEPT !.finalTranslatedContent =
                             Trim(s.chunkAccumulatedText) \o <<NL2>>],
                "ok"),
              s)

(* lines 256-268: the accepted chunk is appended, then the wait *)
AcceptChunk(s) ==
  AfterAccept(SetLastCall(
                [s EXCEPT !.finalTranslatedContent =
                             @ \o Trim(s.chunkAccumulatedText) \o <<NL2>>],
                "ok"),
              s)

StreamCompleted_SkipsRejectedChunk(s) ==
  IF ChunkAccepted(ChunkAt(s), s.chunkAccumulatedText)
  THEN AcceptChunk(s)
  ELSE IF s.i < Len(ChunksAt(s)) - 1
  THEN BeginChunk(SetLastCall(s, "failed"), s.i + 1)
  ELSE AttemptFailed(s, ChunkValidationError(
                          ChunkUnits(ChunkAt(s)),
                          countCues(s.chunkAccumulatedText)))

(* lines 218-227: the stream has ended *)
StreamCompleted(s) ==
  IF ChunkAccepted(ChunkAt(s), s.chunkAccumulatedText)
  THEN AcceptChunk(s)
  ELSE AttemptFailed(s, ChunkValidationError(
                          ChunkUnits(ChunkAt(s)),
                          countCues(s.chunkAccumulatedText)))

FileRead_DropsHeader(s) ==
  LET file == JobAt(s).file
      split == splitVttIntoCues(file)
      s1 == [s EXCEPT !.finalTranslatedContent =
                         IF split.header # <<>>
                         THEN split.header \o <<NL2>> ELSE <<>>]
  IN  IF Documents[file].blank THEN FailJob(s, EmptyFileError)
      ELSE IF Len(split.cues) = 0
      THEN NextJob(UpdateJob(s1, [status |-> "completed",
                                  translatedVtt |-> <<>>]),
                   s.jobIndex + 1)
      ELSE BeginChunk(s1, 0)

FileRead_SkipsEmptyCheck(s) ==
  LET file == JobAt(s).file
      split == splitVttIntoCues(file)
      s1 == [s EXCEPT !.finalTranslatedContent =
                         IF split.header # <<>>
                         THEN split.header \o <<NL2>> ELSE <<>>]
  IN  IF Len(split.cues) = 0
      THEN NextJob(UpdateJob(s1, [status |-> "completed",
                                  translatedVtt |-> split.header]),
                   s.jobIndex + 1)
      ELSE BeginChunk(s1, 0)

(* lines 167-180: the file has been read *)
FileRead(s) ==
  LET file == JobAt(s).file
      split == splitVttIntoCues(file)
      s1 == [s EXCEPT !.finalTranslatedContent =
                         IF split.header # <<>>
                         THEN split.header \o <<NL2>> ELSE <<>>]
  IN  IF Documents[file].blank THEN FailJob(s, EmptyFileError)
      ELSE IF Len(split.cues) = 0
      THEN NextJob(UpdateJob(s1, [status |-> "completed",
                                  translatedVtt |-> split.header]),
                   s.jobIndex + 1)
      ELSE BeginChunk(s1, 0)

ProcessQueue_KeepsStop(s) ==
  IF ~isApiKeySet THEN [s EXCEPT !.notification = "key_missing"]
  ELSE IF s.isProcessingQueue \/ ~HasQueued(s.jobs) THEN s
  ELSE NextJob([s EXCEPT
                  !.runs = @ + 1,
                  !.isProcessingQueue = TRUE,
                  !.notification = "processing",
                  !.hasError = FALSE,
                  !.closure = [jobs |-> [k \in 1..Len(s.jobs) |->
                                           [id |-> s.jobs[k].id,
                                            file |-> s.jobs[k].file,
                                            status |-> s.jobs[k].status]],
                               chunkDelay |-> s.chunkDelay]],
               1)

(* lines 130-148: handleProcessQueue up to the job loop *)
ProcessQueue(s) ==
  IF ~isApiKeySet THEN [s EXCEPT !.notification = "key_missing"]
  ELSE IF s.isProcessingQueue \/ ~HasQueued(s.jobs) THEN s
  ELSE NextJob([s EXCEPT
                  !.runs = @ + 1,
                  !.isProcessingQueue = TRUE,
                  !.stopRequest = FALSE,
                  !.notification = "processing",
                  !.hasError = FALSE,
                  !.closure = [jobs |-> [k \in 1..Len(s.jobs) |->
                                           [id |-> s.jobs[k].id,
                                            file |-> s.jobs[k].file,
                                            status |-> s.jobs[k].status]],
                               chunkDelay |-> s.chunkDelay]],
               1)

----------------------------------------------------------------------------
(* What the remote model may stream: a fragment completes one arrow, or   *)
(* all of the chunk's but one; the response may open with a fragment that *)
(* holds the framing marker and no arrow.                                  *)

FragmentUnits(chunk) == {u \in {1, ChunkUnits(chunk) - 1} : u > 0}

Fragment(s, units, marker) ==
  [kind |-> "frag", chunk |-> s.i + 1, attempt |-> s.attempt,
   seq |-> Len(s.chunkAccumulatedText) + 1, units |-> units, ws |-> FALSE,
   marker |-> marker]

Fragments(s) ==
  {Fragment(s, u, FALSE) : u \in FragmentUnits(ChunkAt(s))}
    \cup (IF s.chunkAccumulatedText = <<>> THEN {Fragment(s, 0, TRUE)}
          ELSE {})

(* The file lists the user selects: every file alone, and pairs in which *)
(* a job that ends at once (in error, or completed) precedes or follows   *)
(* one that is translated, or two translated jobs follow each other.      *)
Selections ==
  {<<f>> : f \in Files}
    \cup {<<"blank", "one">>, <<"hdr", "one">>, <<"one", "hdr">>,
          <<"one", "one">>}


----------------------------------------------------------------------------
(* Initial state: the component as mounted.  The key may be in storage;  *)
(* saving and clearing it (ApiKeyInput) is outside this model.           *)

Init ==
  /\ jobs = <<>>
  /\ nextId = 0
  /\ runs = 0
  /\ isProcessingQueue = FALSE
  /\ notification = None
  /\ needsProcessing = FALSE
  /\ isApiKeySet \in BOOLEAN
  /\ chunkDelay = DefaultChunkDelay
  /\ stopRequest = FALSE
  /\ pc = "idle"
  /\ closure = NoClosure
  /\ jobIndex = 0
  /\ hasError = FALSE
  /\ finalTranslatedContent = <<>>
  /\ chatSession = NoSession
  /\ i = 0
  /\ attempt = 0
  /\ chunkAccumulatedText = <<>>
  /\ calls = <<>>
  /\ lastFailure = NoFailure
  /\ lastWait = NoWait
  /\ probe = NoProbe

----------------------------------------------------------------------------
(* The user's handlers *)

(* lines 89-97: the list is set to one new job per file; of the file     *)
(* lists in selections, while the clock has issued fewer than limit ids   *)
FilesSelected(limit, selections) ==
  /\ nextId < limit
  /\ \E files \in selections :
       jobs' = [k \in 1..Len(files) |->
                  NewJob(nextId * MaxJobs + k, files[k])]
  /\ nextId' = nextId + 1
  /\ notification' = None
  /\ UNCHANGED <<runs, isProcessingQueue, needsProcessing, isApiKeySet,
                 chunkDelay, stopRequest, workerVars, probe>>

(* a drop reaches it whether or not a run is active *)
handleFilesSelected == FilesSelected(MaxSelections, Selections)

(* lines 99-103; the button is rendered while a run is active *)
handleStopQueue ==
  /\ isProcessingQueue
  /\ stopRequest' = TRUE
  /\ notification' = "stopping"
  /\ UNCHANGED <<jobs, nextId, runs, isProcessingQueue, needsProcessing,
                 isApiKeySet, chunkDelay, workerVars, probe>>

(* lines 111-114; the button is rendered while no run is active *)
handleClearQueue ==
  /\ ~isProcessingQueue
  /\ jobs' = <<>>
  /\ notification' = None
  /\ UNCHANGED <<nextId, runs, isProcessingQueue, needsProcessing,
                 isApiKeySet, chunkDelay, stopRequest, workerVars, probe>>

RetryUpdates_MarksProcessing ==
  [status |-> "processing", error |-> NoError, translatedVtt |-> Undefined,
   chatSession |-> NoSession, progress |-> NoProgress]

(* lines 313-325 *)
RetryUpdates ==
  [status |-> "queued", error |-> NoError, translatedVtt |-> Undefined,
   chatSession |-> NoSession, progress |-> NoProgress]

Retryable(J, id) ==
  id \in JobIds(J) /\ JobOf(J, id).status \in {"error", "completed"}

RetryResult_OnlyErrors(J, id) ==
  IF id \in JobIds(J) /\ JobOf(J, id).status = "error"
  THEN updateJobStatus(J, id, RetryUpdates) ELSE J

(* the job list handleRetryJob leaves *)
RetryResult(J, id) ==
  IF Retryable(J, id) THEN updateJobStatus(J, id, RetryUpdates) ELSE J

handleRetryJob(id) ==
  /\ jobs' = RetryResult(jobs, id)
  /\ needsProcessing' = (Retryable(jobs, id) \/ needsProcessing)
  /\ UNCHANGED <<nextId, runs, isProcessingQueue, notification, isApiKeySet,
                 chunkDelay, stopRequest, workerVars, probe>>

(* the retry button is rendered for the jobs in error *)
RetryJob ==
  \E id \in {j \in JobIds(jobs) : JobOf(jobs, j).status = "error"} :
     handleRetryJob(id)

(* the Translate button: rendered while no run is active, enabled when a  *)
(* job is queued and the key is set                                       *)
handleProcessQueue ==
  /\ ~isProcessingQueue /\ HasQueued(jobs) /\ isApiKeySet
  /\ runs < MaxRuns
  /\ Commit(ProcessQueue(Cur))
  /\ UNCHANGED <<nextId, needsProcessing, isApiKeySet, probe>>

AutoProcess_ForgetsRun ==
  /\ needsProcessing /\ ~isProcessingQueue
  /\ runs < MaxRuns
  /\ needsProcessing' = FALSE
  /\ UNCHANGED <<jobs, nextId, runs, isProcessingQueue, notification,
                 isApiKeySet, chunkDelay, stopRequest, workerVars, probe>>

(* lines 327-332: the effect that starts a run after a retry *)
AutoProcess ==
  /\ needsProcessing /\ ~isProcessingQueue
  /\ runs < MaxRuns
  /\ needsProcessing' = FALSE
  /\ Commit(ProcessQueue(Cur))
  /\ UNCHANGED <<nextId, isApiKeySet, probe>>

----------------------------------------------------------------------------
(* The worker resumes from an await *)

WorkerStep(s) ==
  /\ Commit(s)
  /\ UNCHANGED <<nextId, needsProcessing, isApiKeySet, probe>>

(* line 167: readFileAsText resolves *)
ReadFileResolved ==
  /\ pc = "readFile"
  /\ WorkerStep(FileRead(Cur))

SendResolved_ForgetsSession ==
  /\ pc = "sending"
  /\ WorkerStep([Cur EXCEPT !.pc = "draining"])

(* line 209-210: sendMessageStream resolves; the session is kept *)
SendResolved ==
  /\ pc = "sending"
  /\ WorkerStep([Cur EXCEPT !.chatSession = IF chatSession = NoSession
                                            THEN calls[Len(calls)].chat
                                            ELSE chatSession,
                            !.pc = "draining"])

(* geminiService.ts: sendMessageStream rejects and the error is rethrown *)
SendRejected ==
  /\ pc = "sending"
  /\ \E raw \in SendFailures :
       WorkerStep(AttemptFailed(Cur, ClassifySendError(raw)))

(* lines 212-216: one fragment arrives and the partial output is shown *)
StreamFragment ==
  /\ pc = "draining"
  /\ Len(chunkAccumulatedText) < MaxFragments
  /\ \E f \in Fragments(Cur) :
       LET text == Append(chunkAccumulatedText, f)
       IN  WorkerStep(UpdateJob(
             [Cur EXCEPT !.chunkAccumulatedText = text],
             [translatedVtt |-> finalTranslatedContent \o text]))

StreamEnd ==
  /\ pc = "draining"
  /\ WorkerStep(StreamCompleted(Cur))

StreamError ==
  /\ pc = "draining"
  /\ \E e \in StreamErrors : WorkerStep(AttemptFailed(Cur, e))

(* line 252 *)
BackoffElapsed ==
  /\ pc = "backoff"
  /\ WorkerStep(BeginAttempt([Cur EXCEPT !.lastWait = NoWait], attempt + 1))

(* line 266 *)
ChunkDelayElapsed ==
  /\ pc = "chunkDelay"
  /\ WorkerStep(BeginChunk([Cur EXCEPT !.lastWait = NoWait], i + 1))

(* line 294 *)
FileDelayElapsed ==
  /\ pc = "fileDelay"
  /\ WorkerStep(NextJob([Cur EXCEPT !.lastWait = NoWait], jobIndex + 1))

Next ==
  \/ handleFilesSelected
  \/ handleStopQueue
  \/ handleClearQueue
  \/ RetryJob
  \/ handleProcessQueue
  \/ AutoProcess
  \/ ReadFileResolved
  \/ SendResolved
  \/ SendRejected
  \/ StreamFragment
  \/ StreamEnd
  \/ StreamError
  \/ BackoffElapsed
  \/ ChunkDelayElapsed
  \/ FileDelayElapsed

Spec == Init /\ [][Next]_vars

(* The worker resumes whenever the await it is suspended at settles: a    *)
(* timer elapses, the file is read, the call returns or fails, the        *)
(* stream delivers or ends.  The effect after a retry runs once it is     *)
(* due.  The user's actions are under no such obligation.                 *)
WorkerNext ==
  \/ ReadFileResolved
  \/ SendResolved
  \/ SendRejected
  \/ StreamFragment
  \/ StreamEnd
  \/ StreamError
  \/ BackoffElapsed
  \/ ChunkDelayElapsed
  \/ FileDelayElapsed

(* The worker can resume exactly while it is suspended at an await, and  *)
(* the effect can run exactly while it is due and no run is active.       *)
WorkerEnabled == pc # "idle"
AutoProcessEnabled == needsProcessing /\ ~isProcessingQueue /\ runs < MaxRuns

EnabledAsStated ==
  /\ WorkerEnabled <=> ENABLED <<WorkerNext>>_vars
  /\ AutoProcessEnabled <=> ENABLED <<AutoProcess>>_vars

(* Weak fairness of the worker and of the effect.  WF_vars(A) is          *)
(* []<>~ENABLED <<A>>_vars \/ []<><<A>>_vars; it is written out here with  *)
(* the state predicate each ENABLED equals (EnabledAsStated).             *)
WorkerFairness == []<>(~WorkerEnabled) \/ []<><<WorkerNext>>_vars
AutoProcessFairness == []<>(~AutoProcessEnabled) \/ []<><<AutoProcess>>_vars

FairSpec == Spec /\ WorkerFairness /\ AutoProcessFairness

----------------------------------------------------------------------------
(* The queue under repeated drops.  FileUploadArea hands every drop on    *)
(* the upload area to handleFilesSelected (lines 76-82), with files in    *)
(* the list or not and a run active or not.  The files dropped have one   *)
(* chunk at most, so the wait between chunks is not reached here.         *)

DroppedFiles == {<<"one">>, <<"blank", "one">>}

handleDrop == FilesSelected(MaxDrops, DroppedFiles)

NextDrop ==
  \/ handleDrop
  \/ handleStopQueue
  \/ handleClearQueue
  \/ RetryJob
  \/ handleProcessQueue
  \/ AutoProcess
  \/ ReadFileResolved
  \/ SendResolved
  \/ SendRejected
  \/ StreamFragment
  \/ StreamEnd
  \/ StreamError
  \/ BackoffElapsed
  \/ FileDelayElapsed

SpecDrop == Init /\ [][NextDrop]_vars

----------------------------------------------------------------------------
(* The queue with the slider of the delay between chunks.  The slider    *)
(* (DelaySlider, min 1, max 30, step 1) is disabled while a run is       *)
(* active (FileUploadArea.tsx:121-128); its onChange is setChunkDelay.    *)
(* One file of two chunks is selected, so the wait between files is not   *)
(* reached here.                                                          *)

SliderValues == {1, 27, 30}

DelayFiles == {<<"long">>}

handleChunkDelayChange ==
  /\ ~isProcessingQueue
  /\ \E v \in SliderValues : chunkDelay' = v
  /\ UNCHANGED <<jobs, nextId, runs, isProcessingQueue, notification,
                 needsProcessing, isApiKeySet, stopRequest, workerVars,
                 probe>>

handleFileChange == FilesSelected(MaxSelections, DelayFiles)

NextDelay ==
  \/ handleChunkDelayChange
  \/ handleFileChange
  \/ handleStopQueue
  \/ handleClearQueue
  \/ RetryJob
  \/ handleProcessQueue
  \/ AutoProcess
  \/ ReadFileResolved
  \/ SendResolved
  \/ SendRejected
  \/ StreamFragment
  \/ StreamEnd
  \/ StreamError
  \/ BackoffElapsed
  \/ ChunkDelayElapsed

SpecDelay == Init /\ [][NextDelay]_vars

----------------------------------------------------------------------------
(* The cue utilities on text.  A string is a sequence of characters: "n"   *)
(* is a line feed, "r" a carriage return, "s" a space, "t" a character of  *)
(* text and "a" the timestamp arrow "-->".                                 *)

Chars == {"n", "r", "s", "t", "a"}
Whitespace == {"n", "r", "s"}
BlankLine == <<"n", "n">>

RECURSIVE StringsOfLen(_)
StringsOfLen(n) ==
  IF n = 0 THEN {<<>>}
  ELSE {Append(str, c) : str \in StringsOfLen(n - 1), c \in Chars}

RECURSIVE ListsOfLen(_, _)
ListsOfLen(S, n) ==
  IF n = 0 THEN {<<>>}
  ELSE {Append(l, x) : l \in ListsOfLen(S, n - 1), x \in S}

(* Array.prototype.join *)
RECURSIVE JoinWith(_, _)
JoinWith(parts, sep) ==
  IF parts = <<>> THEN <<>>
  ELSE IF Len(parts) = 1 THEN parts[1]
  ELSE parts[1] \o sep \o JoinWith(Tail(parts), sep)

(* String.prototype.trim, on characters *)
RECURSIVE TrimStart(_)
TrimStart(str) ==
  IF str = <<>> THEN <<>>
  ELSE IF Head(str) \in Whitespace THEN TrimStart(Tail(str)) ELSE str

RECURSIVE TrimEnd(_)
TrimEnd(str) ==
  IF str = <<>> THEN <<>>
  ELSE IF str[Len(str)] \in Whitespace
       THEN TrimEnd(SubSeq(str, 1, Len(str) - 1)) ELSE str

TrimStr(str) == TrimEnd(TrimStart(str))

(* str.includes('-->') *)
HasArrow(str) == \E k \in 1..Len(str) : str[k] = "a"

(* the for loop of groupCuesIntoChunks, from index k (0-based) on *)
RECURSIVE groupLoop_DropsShortChunk(_, _, _)
groupLoop_DropsShortChunk(cues, chunkSize, k) ==
  IF k + chunkSize > Len(cues) THEN <<>>
  ELSE <<JoinWith(SubSeq(cues, k + 1, k + chunkSize), BlankLine)>>
         \o groupLoop_DropsShortChunk(cues, chunkSize, k + chunkSize)

RECURSIVE groupLoop(_, _, _)
groupLoop(cues, chunkSize, k) ==
  IF k >= Len(cues) THEN <<>>
  ELSE <<JoinWith(SubSeq(cues, k + 1, Min(k + chunkSize, Len(cues))),
                  BlankLine)>>
         \o groupLoop(cues, chunkSize, k + chunkSize)

InvalidChunkSize == [kind |-> "InvalidChunkSize"]

groupCuesIntoChunksOfText_NoThrow(cues, chunkSize) ==
  IF chunkSize <= 0
  THEN [error |-> NoError, chunks |-> <<>>]
  ELSE [error |-> NoError, chunks |-> groupLoop(cues, chunkSize, 0)]

(* groupCuesIntoChunks on a list of cue strings: what it throws, if it    *)
(* throws, and the chunks it returns                                       *)
groupCuesIntoChunksOfText(cues, chunkSize) ==
  IF chunkSize <= 0
  THEN [error |-> InvalidChunkSize, chunks |-> <<>>]
  ELSE [error |-> NoError, chunks |-> groupLoop(cues, chunkSize, 0)]

(* the cue lists and the sizes groupCuesIntoChunks is given *)
CueStrings == {<<"a">>, <<"t">>, <<"a", "n", "t">>}

ProbeGroup ==
  /\ probe = NoProbe
  /\ \E n \in 0..MaxCues :
       \E cues \in ListsOfLen(CueStrings, n) :
          \E size \in (0 - MaxChunkSize)..MaxChunkSize :
             probe' = [fn |-> "groupCuesIntoChunks", cues |-> cues,
                       chunkSize |-> size,
                       result |-> groupCuesIntoChunksOfText(cues, size)]
  /\ UNCHANGED <<userVars, workerVars>>

SpecGroup == Init /\ [][ProbeGroup]_vars

(* vttContent.replace(/\r\n/g, '\n') *)
RECURSIVE Normalize(_)
Normalize(str) ==
  IF Len(str) < 2 THEN str
  ELSE IF str[1] = "r" /\ str[2] = "n"
       THEN <<"n">> \o Normalize(SubSeq(str, 3, Len(str)))
       ELSE <<str[1]>> \o Normalize(Tail(str))

(* str.split('\n'): the lines of a string; last: the line being read *)
RECURSIVE SplitLinesFrom(_, _)
SplitLinesFrom(str, last) ==
  IF str = <<>> THEN <<last>>
  ELSE IF Head(str) = "n" THEN <<last>> \o SplitLinesFrom(Tail(str), <<>>)
  ELSE SplitLinesFrom(Tail(str), Append(last, Head(str)))

SplitLines(str) == SplitLinesFrom(str, <<>>)

(* str.split(/\n\n+/): the pieces between runs of two or more line feeds *)
RECURSIVE DropLineFeeds(_)
DropLineFeeds(str) ==
  IF str # <<>> /\ Head(str) = "n" THEN DropLineFeeds(Tail(str)) ELSE str

RECURSIVE SplitBlankFrom(_, _)
SplitBlankFrom(str, piece) ==
  IF str = <<>> THEN <<piece>>
  ELSE IF Len(str) >= 2 /\ str[1] = "n" /\ str[2] = "n"
       THEN <<piece>> \o SplitBlankFrom(DropLineFeeds(str), <<>>)
       ELSE SplitBlankFrom(Tail(str), Append(piece, Head(str)))

SplitBlank(str) == SplitBlankFrom(str, <<>>)

(* the first line that holds an arrow (1-based), 0 when there is none *)
FirstArrowLine(lines) ==
  IF \E k \in 1..Len(lines) : HasArrow(lines[k])
  THEN CHOOSE k \in 1..Len(lines) :
         /\ HasArrow(lines[k])
         /\ \A m \in 1..(k - 1) : ~HasArrow(lines[m])
  ELSE 0

(* the while loop: back from line k to the line after a blank one *)
RECURSIVE BlockStart_StopsAtEmptyLine(_, _)
BlockStart_StopsAtEmptyLine(lines, k) ==
  IF k > 1 /\ lines[k - 1] # <<>>
  THEN BlockStart_StopsAtEmptyLine(lines, k - 1) ELSE k

RECURSIVE BlockStart(_, _)
BlockStart(lines, k) ==
  IF k > 1 /\ TrimStr(lines[k - 1]) # <<>>
  THEN BlockStart(lines, k - 1) ELSE k

(* splitVttIntoCues on the text of a file *)
splitVttIntoCuesOfText(vttContent) ==
  LET lines == SplitLines(Normalize(vttContent))
      arrow == FirstArrowLine(lines)
      first == BlockStart(lines, arrow)
  IN  IF arrow = 0 THEN [header |-> TrimStr(vttContent), cues |-> <<>>]
      ELSE [header |-> TrimStr(JoinWith(SubSeq(lines, 1, first - 1),
                                         <<"n">>)),
            cues |-> SelectSeq(
                       SplitBlank(JoinWith(SubSeq(lines, first, Len(lines)),
                                           <<"n">>)),
                       LAMBDA cue : TrimStr(cue) # <<>>)]

(* header and cues put together again, as the output of a job is: the    *)
(* header and a blank line when there is a header, then the cues joined  *)
(* by blank lines                                                         *)
Recombine(split) ==
  (IF split.header # <<>> THEN split.header \o BlankLine ELSE <<>>)
    \o JoinWith(split.cues, BlankLine)

ProbeSplit ==
  /\ probe = NoProbe
  /\ \E n \in 0..MaxChars :
       \E str \in StringsOfLen(n) :
          probe' = [fn |-> "splitVttIntoCues", vttContent |-> str,
                    result |-> splitVttIntoCuesOfText(str),
                    again |-> splitVttIntoCuesOfText(
                                Recombine(splitVttIntoCuesOfText(str)))]
  /\ UNCHANGED <<userVars, workerVars>>

SpecSplit == Init /\ [][ProbeSplit]_vars

----------------------------------------------------------------------------
(* handleRetryJob as a function of the job list and the id it is given:   *)
(* lists of one or two jobs in every status, with or without output,      *)
(* error, session and progress, and an id that may be in the list or not. *)

ProbeJobs(id) ==
  [id : {id}, file : {"one"},
   status : {"queued", "processing", "completed", "error"},
   translatedVtt : {Undefined, <<HDR>>},
   error : {NoError, EmptyFileError},
   chatSession : {NoSession, [job |-> id, chunk |-> 1, attempt |-> 1]},
   progress : {NoProgress, [current |-> 1, total |-> 2]}]

ProbeJobLists ==
  {<<a>> : a \in ProbeJobs(1)}
    \cup {<<a, b>> : a \in ProbeJobs(1), b \in ProbeJobs(2)}

ProbeRetry ==
  /\ probe = NoProbe
  /\ \E J \in ProbeJobLists, id \in 1..(MaxJobs + 1) :
       probe' = [fn |-> "handleRetryJob", jobs |-> J, id |-> id,
                 result |-> RetryResult(J, id),
                 needsProcessing |-> Retryable(J, id)]
  /\ UNCHANGED <<userVars, workerVars>>

SpecRetry == Init /\ [][ProbeRetry]_vars

----------------------------------------------------------------------------
(* The catch of translateVttWithChat as a function of the error it is     *)
(* given.  A message is a sequence of pieces of text; the pieces are the  *)
(* substrings the catch looks for, in lower case and in another case, and *)
(* a piece that holds none of them.  json says that the serialised error  *)
(* contains 'resource_exhausted'.                                         *)

Pieces ==
  {"api key not valid", "API key not valid", "quota", "Quota", "safety",
   "SAFETY", "resource_exhausted", "other"}

(* String.prototype.toLowerCase, piece by piece *)
LowerPiece(w) ==
  CASE w = "API key not valid" -> "api key not valid"
    [] w = "Quota" -> "quota"
    [] w = "SAFETY" -> "safety"
    [] OTHER -> w

toLowerCase(msg) == [k \in 1..Len(msg) |-> LowerPiece(msg[k])]

(* msg.includes(piece) *)
Includes(msg, piece) == \E k \in 1..Len(msg) : msg[k] = piece

(* what the checks of the catch find in the error *)
RawOf(msg, json) ==
  [msgKey    |-> Includes(toLowerCase(msg), "api key not valid"),
   msgQuota  |-> Includes(toLowerCase(msg), "quota"),
   msgSafety |-> Includes(toLowerCase(msg), "safety"),
   msgRE     |-> Includes(toLowerCase(msg), "resource_exhausted"),
   jsonRE    |-> json]

(* the message of the error the catch throws *)
ThrownMessage(msg, json) ==
  LET kind == ClassifySendError(RawOf(msg, json)).kind
  IN  CASE kind = "InvalidKey" -> <<"Invalid API Key: ">>
        [] kind = "RateLimit" -> <<"RESOURCE_EXHAUSTED: ">>
        [] kind = "Safety" -> <<"Content Blocked: ">>
        [] OTHER -> <<"Failed to call the Gemini API: ">> \o msg

ProbeClassify ==
  /\ probe = NoProbe
  /\ \E n \in 0..MaxPieces :
       \E msg \in ListsOfLen(Pieces, n), json \in BOOLEAN :
          probe' = [fn |-> "translateVttWithChat", message |-> msg,
                    json |-> json,
                    kind |-> ClassifySendError(RawOf(msg, json)).kind,
                    thrown |-> ThrownMessage(msg, json)]
  /\ UNCHANGED <<userVars, workerVars>>

SpecClassify == Init /\ [][ProbeClassify]_vars

----------------------------------------------------------------------------
(* validateTranslation as a function of the two counts: every pair of an   *)
(* original count up to MaxUnits and a translated count up to the first    *)
(* one that is excessive for it is given to the validator, once.           *)

ProbeValidate ==
  /\ probe = NoProbe
  /\ \E o \in 0..MaxUnits, t \in 0..(MaxUnits + ExcessAllowance + 1) :
       probe' = [fn |-> "validateTranslation", original |-> o,
                 translated |-> t, ok |-> CountsAccepted(o, t),
                 error |-> IF CountsAccepted(o, t) THEN NoError
                           ELSE MismatchError(o, t)]
  /\ UNCHANGED <<userVars, workerVars>>

SpecValidate == Init /\ [][ProbeValidate]_vars

----------------------------------------------------------------------------
(* Properties *)

(* the id of the job the worker is on, and that job in a job list *)
CurId == closure.jobs[jobIndex].id
LiveCur(J) == {J[k] : k \in {n \in 1..Len(J) : J[n].id = CurId}}

Working == isProcessingQueue /\ pc \in {"sending", "draining", "backoff"}

(* the attempt under way ends: by a failure the catch records, or by the  *)
(* acceptance of the chunk                                                *)
AttemptFails == lastFailure = NoFailure /\ lastFailure' # NoFailure
AttemptAccepted ==
  pc = "draining" /\ pc' # "draining" /\ lastFailure' = NoFailure
LastChunk == i = Len(ChunksAt(Cur)) - 1
CallsOfChunk == SelectSeq(calls, LAMBDA c : c.chunk = i + 1)

Reverted(j) ==
  /\ j.status = "queued"
  /\ j.translatedVtt = <<>>
  /\ j.error = NoError
  /\ j.progress = NoProgress

(* C1: once a stop has been requested while a chunk of a job is being     *)
(* translated (an attempt in flight, its stream being drained, or a       *)
(* backoff wait, on any attempt), the job is on its way back to queued    *)
(* with no output, no error and no progress: no step leaves it in error.  *)
C1_StopNeverLeavesError ==
  [][ (Working /\ stopRequest) =>
        \A j \in LiveCur(jobs') :
           j.status \in {"processing", "completed"} \/ Reverted(j) ]_vars

(* C2: when the attempt after MAX_CHUNK_RETRIES failed ones fails too,    *)
(* that is the 4th attempt for the chunk, the job becomes error and its   *)
(* error names the chunk by its 1-based number, the attempt count 4 and   *)
(* the error of the last attempt.                                         *)
C2_ExhaustedChunkFailsJob ==
  [][ (AttemptFails /\ lastFailure'.attempt = MAX_CHUNK_RETRIES + 1) =>
        /\ Len(CallsOfChunk) = 4
        /\ \A a \in 1..4 : CallsOfChunk[a].attempt = a
        /\ \A a \in 1..3 : CallsOfChunk[a].result = "failed"
        /\ \A j \in LiveCur(jobs') :
              /\ j.status = "error"
              /\ j.error = [kind |-> "ChunkExhausted", chunk |-> i + 1,
                            attempts |-> 4, last |-> lastFailure'.error] ]_vars

C2_Witness ==
  \E k \in 1..Len(jobs) :
     /\ jobs[k].status = "error"
     /\ jobs[k].error.kind = "ChunkExhausted"
     /\ jobs[k].error.chunk = 2
     /\ jobs[k].error.last.kind = "ChunkValidation"

(* C3: when the last chunk of a job is accepted after an earlier attempt  *)
(* of the job failed, the job becomes completed and carries no error.     *)
C3_FailureThenSuccessCompletes ==
  [][ (AttemptAccepted /\ LastChunk
         /\ \E n \in 1..Len(calls) : calls[n].result = "failed") =>
        \A j \in LiveCur(jobs') :
           j.status = "completed" /\ j.error = NoError ]_vars

C3_Witness ==
  \E k \in 1..Len(jobs) :
     /\ jobs[k].status = "completed"
     /\ jobs[k].error = NoError
     /\ \E n \in 1..Len(jobs[k].translatedVtt) :
           jobs[k].translatedVtt[n].attempt = 2

(* C4: after a failed attempt the worker holds no session, and the call   *)
(* that follows a failed one is given no session and uses the full form   *)
(* of the prompt; the form of every call follows the session it is given. *)
C4_FailureDiscardsSession ==
  /\ \A n \in 1..Len(calls) :
        calls[n].form = (IF calls[n].sent = NoSession THEN "full"
                         ELSE "followup")
  /\ \A n \in 2..Len(calls) :
        calls[n - 1].result = "failed" =>
          calls[n].sent = NoSession /\ calls[n].form = "full"
  /\ (Len(calls) > 0 /\ calls[Len(calls)].result = "failed") =>
        chatSession = NoSession

C4_Witness ==
  /\ Len(calls) >= 3
  /\ calls[Len(calls) - 1].form = "followup"
  /\ calls[Len(calls) - 1].result = "failed"
  /\ calls[Len(calls)].form = "full"

(* C5: the call that follows a successful one is for the next chunk, is   *)
(* given the session the successful call used or created, and uses the    *)
(* follow-up form; three cues in chunks of two make two chunks.           *)
C5_SuccessKeepsSession ==
  /\ groupCuesIntoChunks(<<1, 1, 1>>, 2) = <<(<<1, 1>>), (<<1>>)>>
  /\ \A n \in 2..Len(calls) :
        calls[n - 1].result = "ok" =>
          /\ calls[n].chunk = calls[n - 1].chunk + 1
          /\ calls[n].sent = calls[n - 1].chat
          /\ calls[n].sent # NoSession
          /\ calls[n].form = "followup"

C5_Witness ==
  /\ Len(calls) = 2
  /\ calls[1].sent = NoSession
  /\ calls[1].result = "ok"
  /\ calls[2].chunk = 2
  /\ calls[2].sent = calls[1].chat
  /\ calls[2].form = "followup"

(* C6: the first call of every run of a job is given no session and uses  *)
(* the full form; a session a call is given was created in the same run   *)
(* of the same job; no session is stored on a job.                        *)
C6_SessionIsPerJobRun ==
  /\ Len(calls) >= 1 => calls[1].sent = NoSession /\ calls[1].form = "full"
  /\ \A n \in 1..Len(calls) :
        /\ calls[n].job = CurId
        /\ calls[n].sent # NoSession =>
             \E m \in 1..(n - 1) :
                calls[m].sent = NoSession /\ calls[m].chat = calls[n].sent
  /\ chatSession # NoSession =>
        \E m \in 1..Len(calls) :
           calls[m].sent = NoSession /\ calls[m].chat = chatSession
  /\ \A k \in 1..Len(jobs) : jobs[k].chatSession = NoSession

C6_Witness ==
  /\ jobIndex = 2
  /\ Len(calls) = 1
  /\ calls[1].sent = NoSession
  /\ \E k \in 1..Len(jobs) :
        /\ jobs[k].id = closure.jobs[1].id
        /\ jobs[k].status = "completed"
        /\ jobs[k].file = "one"

(* C7: when the draining of a stream ends, the chunk is accepted only if  *)
(* the number of arrows received equals the chunk's; on any other count   *)
(* the attempt has failed: the worker backs off for the next attempt, or  *)
(* after the last attempt the job is in error.                            *)
C7_ChunkCountIsExact ==
  [][ (pc = "draining" /\ pc' # "draining") =>
        LET exact ==
              countCues(chunkAccumulatedText) = ChunkUnits(ChunkAt(Cur))
        IN  /\ lastFailure' = NoFailure => exact
            /\ ~exact =>
                 /\ lastFailure'.chunk = i + 1
                 /\ lastFailure'.attempt = attempt
                 /\ attempt <= MAX_CHUNK_RETRIES => pc' = "backoff"
                 /\ attempt > MAX_CHUNK_RETRIES =>
                      \A j \in LiveCur(jobs') : j.status = "error" ]_vars

C7_Witness ==
  /\ pc = "backoff"
  /\ lastFailure.error.kind = "ChunkValidation"
  /\ lastFailure.error.received # lastFailure.error.expected
  /\ CountsAccepted(lastFailure.error.expected, lastFailure.error.received)

(* C8, as the code has it: when the last chunk is accepted the document   *)
(* is validated as a whole before the job is marked completed; since      *)
(* every chunk was accepted on an exact count, the output has exactly as  *)
(* many arrows as the original, the validation passes, the job becomes    *)
(* completed, and no job is ever in error for a failed validation.        *)
C8_DocumentValidationPasses ==
  [][ (AttemptAccepted /\ LastChunk) =>
        /\ \A j \in LiveCur(jobs') :
              /\ j.status = "completed"
              /\ countCues(j.translatedVtt) = InputUnits(j.file)
              /\ validateTranslation(j.file, j.translatedVtt)
        /\ pc' \in {"idle", "fileDelay", "readFile"}
        /\ \A k \in 1..Len(jobs') :
              jobs'[k].error.kind # "ValidationFailed" ]_vars

C8_Witness ==
  \E k \in 1..Len(jobs) :
     /\ jobs[k].status = "completed"
     /\ jobs[k].file = "small"
     /\ countCues(jobs[k].translatedVtt) = 3

(* C8, as stated: the validation of the document can fail although every  *)
(* chunk passed its own check, that is, some file and some responses,     *)
(* each accepted for its chunk, give counts the validation rejects; the   *)
(* files are those that can be selected or are in the job list.           *)
ResponseUnits(chunk) ==
  UNION {{SumSeq(q) : q \in [1..n -> FragmentUnits(chunk)]} :
           n \in 0..MaxFragments}

C8_DocumentFailureCanOccur ==
  \E f \in Files \cup {jobs[k].file : k \in 1..Len(jobs)} :
     LET chunks == ChunksOf(f)
     IN  \E r \in [1..Len(chunks) -> 0..(2 * CUES_PER_CHUNK)] :
            /\ \A c \in 1..Len(chunks) :
                  /\ r[c] \in ResponseUnits(chunks[c])
                  /\ ChunkAccepted(chunks[c], <<[units |-> r[c]]>>)
            /\ ~CountsAccepted(InputUnits(f),
                               SumSeq([c \in 1..Len(chunks) |-> r[c]]))

(* C9: the output of a completed job that has cues is the header and a    *)
(* blank line, then for each chunk in order the text accepted for it     *)
(* (one attempt's stream, whole and in order, with the chunk's count of   *)
(* arrows) and a blank line, the whole trimmed: one text per chunk.       *)
Segment(text, c) ==
  SelectSeq(text, LAMBDA t : t.kind = "frag" /\ t.chunk = c)

RECURSIVE Assemble(_, _, _)
Assemble(text, c, n) ==
  IF c > n THEN <<>>
  ELSE Segment(text, c) \o <<NL2>> \o Assemble(text, c + 1, n)

C9_OutputIsHeaderAndChunks ==
  \A k \in 1..Len(jobs) :
     LET text == jobs[k].translatedVtt
         split == splitVttIntoCues(jobs[k].file)
         chunks == ChunksOf(jobs[k].file)
         head == IF split.header # <<>> THEN split.header \o <<NL2>>
                 ELSE <<>>
     IN  (jobs[k].status = "completed" /\ Len(chunks) > 0) =>
           /\ text = Trim(head \o Assemble(text, 1, Len(chunks)))
           /\ \A c \in 1..Len(chunks) :
                 LET seg == Segment(text, c)
                 IN  /\ countCues(seg) = ChunkUnits(chunks[c])
                     /\ \A n \in 1..Len(seg) :
                           seg[n].seq = n /\ seg[n].attempt = seg[1].attempt

C9_Witness ==
  \E k \in 1..Len(jobs) :
     /\ jobs[k].status = "completed"
     /\ jobs[k].file = "long"
     /\ Len(Segment(jobs[k].translatedVtt, 1)) = 2
     /\ Len(Segment(jobs[k].translatedVtt, 2)) = 1

(* C10: validateTranslation passes exactly when the translated count is   *)
(* at least ceil(0.95 * original) and at most original + 5; when it does  *)
(* not pass, the error carries both counts.  For an original of 100, 95   *)
(* and 105 pass, 94 and 106 do not.                                       *)
C10_ValidationTolerance ==
  /\ CountsAccepted(100, 95) /\ CountsAccepted(100, 105)
  /\ ~CountsAccepted(100, 94) /\ ~CountsAccepted(100, 106)
  /\ probe.fn = "validateTranslation" =>
       /\ probe.ok <=>
            /\ probe.translated >= (95 * probe.original + 99) \div 100
            /\ probe.translated <= probe.original + 5
       /\ probe.ok => probe.error = NoError
       /\ ~probe.ok =>
            /\ probe.error.kind = "ValidationFailed"
            /\ probe.error.original = probe.original
            /\ probe.error.translated = probe.translated

C10_Witness ==
  /\ probe.fn = "validateTranslation"
  /\ probe.original = 100
  /\ probe.translated = 94
  /\ ~probe.ok
  /\ probe.error = MismatchError(100, 94)

(* C11: for a cue list of length n and a positive chunk size s,            *)
(* groupCuesIntoChunks returns ceil(n / s) chunks; chunk i (0-based) is    *)
(* the cues at positions [i*s, min(i*s + s, n)) in order, joined by a      *)
(* blank line; so every chunk has at most s cues, only the last may have   *)
(* fewer, and the cue counts of the chunks sum to n.                       *)
SliceLen(n, size, c) == Min(c * size + size, n) - c * size

C11_ChunksArePositional ==
  (probe.fn = "groupCuesIntoChunks" /\ probe.chunkSize > 0) =>
    LET n == Len(probe.cues)
        size == probe.chunkSize
        chunks == probe.result.chunks
    IN  /\ probe.result.error = NoError
        /\ Len(chunks) = (n + size - 1) \div size
        /\ \A c \in 0..(Len(chunks) - 1) :
              /\ chunks[c + 1] =
                   JoinWith([k \in 1..SliceLen(n, size, c) |->
                               probe.cues[c * size + k]], BlankLine)
              /\ SliceLen(n, size, c) >= 1
              /\ SliceLen(n, size, c) <= size
              /\ c < Len(chunks) - 1 => SliceLen(n, size, c) = size
        /\ SumSeq([c \in 1..Len(chunks) |-> SliceLen(n, size, c - 1)]) = n

C11_Witness ==
  /\ probe.fn = "groupCuesIntoChunks"
  /\ Len(probe.cues) = 3
  /\ probe.chunkSize = 2
  /\ Len(probe.result.chunks) = 2
  /\ probe.result.chunks[2] = probe.cues[3]

(* C12: groupCuesIntoChunks called with size 0 or a negative size fails    *)
(* with the invalid-size error and returns no chunks, whatever the cue     *)
(* list, the empty one included.                                           *)
C12_NonPositiveSizeRejected ==
  (probe.fn = "groupCuesIntoChunks" /\ probe.chunkSize <= 0) =>
    /\ probe.result.error = InvalidChunkSize
    /\ probe.result.chunks = <<>>

C12_Witness ==
  /\ probe.fn = "groupCuesIntoChunks"
  /\ probe.chunkSize = 0
  /\ probe.cues = <<>>
  /\ probe.result.error = InvalidChunkSize

(* C13: for any document, splitting it into header and cues, putting      *)
(* header and cues together again with blank lines between them and       *)
(* splitting the result gives the same header and the same cue list.      *)
C13_SplitRecombineIdempotent ==
  probe.fn = "splitVttIntoCues" => probe.again = probe.result

(* C14: when no line of the input holds an arrow, splitVttIntoCues gives   *)
(* the whole input, trimmed, as the header and no cues, and no error;      *)
(* when a line holds one, the header is the trimmed text before the block  *)
(* of the first such line, the block reaching back to the line after the   *)
(* nearest blank (empty or whitespace-only) line, and holds no arrow.      *)
C14_HeaderIsTextBeforeFirstBlock ==
  probe.fn = "splitVttIntoCues" =>
    LET lines == SplitLines(Normalize(probe.vttContent))
        arrow == FirstArrowLine(lines)
    IN  IF ~HasArrow(probe.vttContent)
        THEN probe.result = [header |-> TrimStr(probe.vttContent),
                             cues |-> <<>>]
        ELSE /\ ~HasArrow(probe.result.header)
             /\ probe.result.cues # <<>>
             /\ \E b \in 1..arrow :
                   /\ \A k \in b..arrow : TrimStr(lines[k]) # <<>>
                   /\ b = 1 \/ TrimStr(lines[b - 1]) = <<>>
                   /\ probe.result.header =
                        TrimStr(JoinWith(SubSeq(lines, 1, b - 1), <<"n">>))

C14_Witness ==
  /\ probe.fn = "splitVttIntoCues"
  /\ probe.vttContent = <<"t", "n", "s", "n", "t", "a">>
  /\ probe.result = [header |-> <<"t">>, cues |-> <<(<<"t", "a">>)>>]

(* the worker resumes after the file of the current job has been read *)
FileIsRead == pc = "readFile" /\ workerVars' # workerVars
CurFile == closure.jobs[jobIndex].file

(* C15: a job whose source splits into no cues is marked completed as     *)
(* soon as its file is read, with the header alone as its output, and no  *)
(* remote call is made for it: the worker goes on to the next job or      *)
(* ends the run.                                                          *)
C15_ZeroCuesCompletesAtOnce ==
  [][ (FileIsRead /\ ~Documents[CurFile].blank
         /\ Len(splitVttIntoCues(CurFile).cues) = 0) =>
        /\ \A j \in LiveCur(jobs') :
              /\ j.status = "completed"
              /\ j.translatedVtt = splitVttIntoCues(CurFile).header
        /\ calls = <<>> /\ calls' = <<>>
        /\ pc' \in {"readFile", "idle"}
        /\ pc' = "readFile" => jobIndex' > jobIndex ]_vars

C15_Witness ==
  /\ \E k \in 1..Len(jobs) :
        /\ jobs[k].file = "hdr"
        /\ jobs[k].status = "completed"
        /\ jobs[k].translatedVtt = <<HDR>>
  /\ pc = "idle" /\ runs = 1 /\ notification = "success"

(* C16: a job whose source text is empty or whitespace only is marked     *)
(* error as soon as its file is read: no remote call is made and no       *)
(* attempt is started for it.                                             *)
C16_EmptySourceFailsAtOnce ==
  [][ (FileIsRead /\ Documents[CurFile].blank) =>
        /\ \A j \in LiveCur(jobs') :
              j.status = "error" /\ j.error = EmptyFileError
        /\ calls = <<>> /\ calls' = <<>>
        /\ attempt = 0 /\ attempt' = 0
        /\ pc' \in {"readFile", "idle", "fileDelay"}
        /\ pc' = "readFile" => jobIndex' > jobIndex ]_vars

C16_Witness ==
  /\ \E k \in 1..Len(jobs) :
        /\ jobs[k].file = "blank"
        /\ jobs[k].status = "error"
        /\ jobs[k].error = EmptyFileError
  /\ pc = "fileDelay"

(* the job the worker is on goes from processing to error *)
JobFails ==
  /\ isProcessingQueue /\ jobIndex > 0
  /\ \E j \in LiveCur(jobs) : j.status = "processing"
  /\ \E j \in LiveCur(jobs') : j.status = "error"

(* the jobs after the current one that were queued when the run started *)
LaterQueued ==
  {k \in (jobIndex + 1)..Len(closure.jobs) :
     closure.jobs[k].status = "queued"}

(* C17: a job ending in error does not abort the run.  The failure        *)
(* leaves every other job as it was; if a later job was queued when the   *)
(* run started, the run goes on to the wait between files, and after the  *)
(* wait the first such job is picked up unless a stop was requested; a    *)
(* run ends only stopped or with no such job left.                        *)
C17_FailureIsIsolated ==
  [][ /\ JobFails =>
           /\ Len(jobs') = Len(jobs)
           /\ \A k \in 1..Len(jobs) :
                 jobs[k].id # CurId => jobs'[k] = jobs[k]
           /\ LaterQueued # {} =>
                 isProcessingQueue' /\ pc' = "fileDelay"
      /\ (pc = "fileDelay" /\ workerVars' # workerVars /\ ~stopRequest) =>
           /\ pc' = "readFile"
           /\ jobIndex' \in LaterQueued
           /\ \A k \in LaterQueued : jobIndex' <= k
           /\ \A k \in 1..Len(jobs') :
                 jobs'[k].id = closure.jobs[jobIndex'].id =>
                   jobs'[k].status = "processing"
      /\ (isProcessingQueue /\ ~isProcessingQueue') =>
           notification' = "stopped" \/ LaterQueued = {} ]_vars

C17_Witness ==
  /\ isProcessingQueue /\ jobIndex = 2 /\ pc = "sending"
  /\ \E k \in 1..Len(jobs) :
        /\ jobs[k].id = closure.jobs[1].id
        /\ jobs[k].status = "error"
  /\ \E j \in LiveCur(jobs) : j.status = "processing"

RunEnds == isProcessingQueue /\ ~isProcessingQueue'

(* C18: every run ends with exactly one terminal notification: stopped    *)
(* if the user requested a stop during the run, otherwise error if a job  *)
(* failed in the run, otherwise success; and on success every job the     *)
(* run processed is completed.                                            *)
C18_TerminalOutcome ==
  [][ RunEnds =>
        /\ notification' =
             (IF stopRequest THEN "stopped"
              ELSE IF hasError \/ JobFails THEN "error" ELSE "success")
        /\ notification' = "success" =>
             \A k \in 1..jobIndex : \A n \in 1..Len(jobs') :
                (closure.jobs[k].status = "queued"
                   /\ jobs'[n].id = closure.jobs[k].id) =>
                  jobs'[n].status = "completed" ]_vars

(* C19: retrying a job that is completed or in error sets it to queued    *)
(* and clears its output, error, session and progress (its id and file    *)
(* stay); retrying a job that is queued or processing changes nothing;    *)
(* in both cases every other job is left as it was.                       *)
C19_RetryResetsOnlyThatJob ==
  probe.fn = "handleRetryJob" =>
    /\ Len(probe.result) = Len(probe.jobs)
    /\ \A k \in 1..Len(probe.jobs) :
          LET before == probe.jobs[k]
              after == probe.result[k]
          IN  IF before.id = probe.id
                   /\ before.status \in {"completed", "error"}
              THEN after = [id |-> before.id, file |-> before.file,
                            status |-> "queued", translatedVtt |-> Undefined,
                            error |-> NoError, chatSession |-> NoSession,
                            progress |-> NoProgress]
              ELSE after = before

C19_Witness ==
  /\ probe.fn = "handleRetryJob"
  /\ Len(probe.jobs) = 2
  /\ probe.id = 2
  /\ probe.jobs[2].status = "completed"
  /\ probe.jobs[2].translatedVtt = <<HDR>>
  /\ probe.jobs[1].status = "error"
  /\ probe.result[2].status = "queued"
  /\ probe.result[1] = probe.jobs[1]

(* C20: once a failed attempt has raised the inter-chunk delay for a rate *)
(* limit, the raised value is the one waited before every later chunk of  *)
(* the run: whenever the worker starts the wait between two chunks, it    *)
(* waits the delay as it then stands, not the one the run started with.   *)
C20_RaisedDelayIsWaited ==
  [][ (isProcessingQueue /\ pc # "chunkDelay" /\ pc' = "chunkDelay") =>
        lastWait' = [kind |-> "chunk", ms |-> chunkDelay' * 1000] ]_vars

(* a text holds a framing marker *)
HasMarker(text) == \E n \in 1..Len(text) : text[n].marker

(* C21: the text accepted for the chunks of a job, and the output of a    *)
(* completed job, never holds a framing marker: a marker in the response  *)
(* is stripped before the text is validated and appended.                 *)
C21_AcceptedTextHasNoMarker ==
  /\ ~HasMarker(finalTranslatedContent)
  /\ \A k \in 1..Len(jobs) :
        jobs[k].status = "completed" => ~HasMarker(jobs[k].translatedVtt)

(* the ids of the jobs of a list that are in a status *)
IdsIn(J, status) == {J[k].id : k \in {n \in 1..Len(J) : J[n].status = status}}

(* C22: once a stop has been requested in a run, the run starts no new    *)
(* work: no remote call is added to those made (the one in flight can     *)
(* only resolve, fail or be dropped with the job), the worker does not    *)
(* come to wait on a new call, and no job that is queued becomes          *)
(* processing.                                                            *)
C22_StopStartsNoNewWork ==
  [][ (isProcessingQueue /\ stopRequest) =>
        /\ Len(calls') <= Len(calls)
        /\ \A n \in 1..Len(calls') :
              [calls'[n] EXCEPT !.result = "pending"]
                = [calls[n] EXCEPT !.result = "pending"]
        /\ pc' = "sending" => pc = "sending"
        /\ IdsIn(jobs, "queued") \cap IdsIn(jobs', "processing") = {} ]_vars

C22_Witness ==
  /\ ~isProcessingQueue /\ stopRequest /\ runs = 1
  /\ notification = "stopped"
  /\ Len(jobs) = 2
  /\ jobs[1].status = "completed" /\ jobs[1].file = "one"
  /\ jobs[2].status = "queued"

(* C23: when a chunk has used up its attempts the job is in error and   *)
(* no further chunk of it is attempted: the worker waits for the next     *)
(* file, picks up a later job or ends the run.  The output of the job is  *)
(* not cleared: for every earlier chunk the text accepted for it is on    *)
(* the job, and stays on it while the job is in error.                    *)
C23_ExhaustionKeepsPartialOutput ==
  [][ /\ (AttemptFails /\ lastFailure'.attempt = MAX_CHUNK_RETRIES + 1) =>
           /\ \A j \in LiveCur(jobs') :
                 /\ j.status = "error"
                 /\ \A c \in 1..i :
                       /\ Segment(j.translatedVtt, c)
                            = Segment(finalTranslatedContent, c)
                       /\ Segment(j.translatedVtt, c) # <<>>
           /\ pc' \in {"idle", "fileDelay"}
           /\ calls' = <<>> \/ Len(calls') = Len(calls)
      /\ \A k \in 1..Len(jobs') :
            (jobs'[k].status = "error"
               /\ jobs'[k].error.kind = "ChunkExhausted") =>
              \A c \in 1..(jobs'[k].error.chunk - 1) :
                 countCues(Segment(jobs'[k].translatedVtt, c))
                   = ChunkUnits(ChunksOf(jobs'[k].file)[c]) ]_vars

C23_Witness ==
  \E k \in 1..Len(jobs) :
     /\ jobs[k].status = "error"
     /\ jobs[k].file = "long"
     /\ jobs[k].error.kind = "ChunkExhausted"
     /\ jobs[k].error.chunk = 2
     /\ countCues(Segment(jobs[k].translatedVtt, 1)) = CUES_PER_CHUNK
     /\ Segment(jobs[k].translatedVtt, 2) = <<>>

(* the calls made for a chunk of the current job in its current run *)
CallsFor(c) == SelectSeq(calls, LAMBDA call : call.chunk = c)

(* C24: for every chunk at most 4 remote calls are made in one run of its *)
(* job, the initial attempt and MAX_CHUNK_RETRIES = 3 retries: the calls  *)
(* for a chunk are its attempts 1, 2, ... in order, none has a number     *)
(* above 4, and every call but the last made for the chunk has failed.    *)
C24_AtMostFourCalls ==
  /\ MAX_CHUNK_RETRIES + 1 = 4
  /\ attempt <= 4
  /\ \A n \in 1..Len(calls) :
        LET made == CallsFor(calls[n].chunk)
        IN  /\ Len(made) <= 4
            /\ \A a \in 1..Len(made) : made[a].attempt = a
            /\ \A a \in 1..(Len(made) - 1) : made[a].result = "failed"

C24_Witness ==
  /\ pc = "sending" /\ attempt = 4
  /\ Len(CallsFor(2)) = 4
  /\ CallsFor(2)[4].result = "pending"
  /\ CallsFor(2)[3].result = "failed"

(* C25: after the k-th failed attempt of a chunk, k = 1, 2, 3, the      *)
(* worker waits 1500, 3000, 6000 ms, and 15000 ms more when the failure   *)
(* is a rate limit; for failures of one kind the wait grows strictly with *)
(* k; after the 4th failed attempt the worker does not back off.          *)
BaseDelays == <<1500, 3000, 6000>>

ChunkWaitBegins == pc # "chunkDelay" /\ pc' = "chunkDelay"

(* C26: when a chunk is accepted the worker waits the inter-chunk delay   *)
(* exactly when the chunk is not the last of its job and no stop has been *)
(* requested; the wait begins in no other way, so none follows the last   *)
(* chunk of a job; and after the wait the next chunk of the same job is   *)
(* started, unless a stop was requested meanwhile.                        *)
C26_ChunkWaitIffMoreAndNotStopped ==
  [][ /\ AttemptAccepted =>
           (ChunkWaitBegins <=> (~LastChunk /\ ~stopRequest))
      /\ ChunkWaitBegins =>
           /\ AttemptAccepted /\ ~LastChunk
           /\ lastWait' = [kind |-> "chunk",
                           ms |-> closure.chunkDelay * 1000]
           /\ i' = i /\ jobIndex' = jobIndex
      /\ (pc = "chunkDelay" /\ workerVars' # workerVars /\ ~stopRequest) =>
           /\ i' = i + 1 /\ jobIndex' = jobIndex
           /\ pc' = "sending" /\ attempt' = 1 ]_vars

C26_Witness ==
  /\ pc = "chunkDelay" /\ i = 0 /\ ~stopRequest
  /\ CurFile = "long"
  /\ lastWait.kind = "chunk"
  /\ calls[Len(calls)].result = "ok"

(* the job the worker is on goes from processing to completed *)
JobCompletes ==
  /\ isProcessingQueue /\ jobIndex > 0
  /\ \E j \in LiveCur(jobs) : j.status = "processing"
  /\ \E j \in LiveCur(jobs') : j.status = "completed"

(* C27: when the run finishes a job, completed (a job with no cues        *)
(* included) or in error, and no stop has been requested, the worker      *)
(* waits the inter-file delay exactly when a later job of the queue is    *)
(* queued.                                                                *)
C27_FileWaitIffLaterQueued ==
  [][ ((JobCompletes \/ JobFails) /\ ~stopRequest) =>
        /\ pc' = "fileDelay" <=> LaterQueued # {}
        /\ pc' = "fileDelay" =>
             lastWait' = [kind |-> "file", ms |-> FileDelay * 1000] ]_vars

PrefixOf(a, b) == Len(a) <= Len(b) /\ SubSeq(b, 1, Len(a)) = a

(* the output a job shows, and the part of it that is accepted: for the   *)
(* job the worker is on, the header and the text of the accepted chunks,  *)
(* once a chunk is accepted; for any other job, all of its output         *)
Output(j) == IF j.translatedVtt = Undefined THEN <<>> ELSE j.translatedVtt
ChunkIsAccepted ==
  \E n \in 1..Len(finalTranslatedContent) :
     finalTranslatedContent[n].kind = "frag"
AcceptedOutput(j) ==
  IF isProcessingQueue /\ j.id = CurId
  THEN IF ChunkIsAccepted THEN TrimRight(finalTranslatedContent) ELSE <<>>
  ELSE Output(j)

ProcessingJobs == {k \in 1..Len(jobs) : jobs[k].status = "processing"}
CallsInFlight == {n \in 1..Len(calls) : calls[n].result = "pending"}

(* one worker: a run is active exactly while the worker is off idle; at   *)
(* most one job is in processing, and only in a run, where it is the job  *)
(* the worker is on; at most one call is in flight, the last one made,    *)
(* while the worker awaits it or drains its stream; a call for a chunk    *)
(* after the first comes after an accepted call for the chunk before it   *)
Sequential ==
  /\ isProcessingQueue <=> pc # "idle"
  /\ Cardinality(ProcessingJobs) <= 1
  /\ \A k \in ProcessingJobs : isProcessingQueue /\ jobs[k].id = CurId
  /\ Cardinality(CallsInFlight) <= 1
  /\ CallsInFlight # {} =>
        /\ CallsInFlight = {Len(calls)}
        /\ pc \in {"sending", "draining"}
  /\ \A n \in 1..Len(calls) :
        calls[n].chunk > 1 =>
          \E m \in 1..(n - 1) :
             calls[m].chunk = calls[n].chunk - 1 /\ calls[m].result = "ok"

(* C29: processing is sequential under every interleaving of the user's  *)
(* actions with the worker: every state is sequential as above, a run     *)
(* starts only when none is active, and each step adds at most one call.  *)
C29_StrictlySequential ==
  [][ /\ Sequential /\ Sequential'
      /\ runs' # runs =>
           /\ ~isProcessingQueue /\ pc = "idle"
           /\ runs' = runs + 1
      /\ Len(calls') <= Len(calls) + 1 ]_vars

C29_Witness ==
  /\ isProcessingQueue /\ needsProcessing /\ runs = 1
  /\ pc = "draining"
  /\ Len(jobs) = 2
  /\ jobs[1].status = "queued" /\ jobs[1].file = "blank"
  /\ jobs[2].status = "processing"
  /\ CallsInFlight = {1}

(* the worker picks up a job; the ids of the jobs of a captured list     *)
(* that were not queued when the run started                              *)
PicksUp == pc' = "readFile" /\ (pc # "readFile" \/ jobIndex' # jobIndex)
SkippedIds(c) ==
  {c.jobs[k].id : k \in {n \in 1..Len(c.jobs) : c.jobs[n].status # "queued"}}

(* C30: in a run the jobs are picked up in the order of the list: the job *)
(* picked up is the first one after the previous that was queued when the *)
(* run started, and it goes from queued to processing.  A job that was    *)
(* not queued then is skipped: no step of the run sets it to processing   *)
(* or changes any of its fields.                                          *)
C30_QueueOrderSkipsNonQueued ==
  [][ /\ PicksUp =>
           /\ jobIndex' > jobIndex
           /\ closure'.jobs[jobIndex'].status = "queued"
           /\ \A k \in (jobIndex + 1)..(jobIndex' - 1) :
                 closure'.jobs[k].status # "queued"
           /\ \A n \in 1..Len(jobs) :
                 jobs[n].id = closure'.jobs[jobIndex'].id =>
                   /\ jobs[n].status = "queued"
                   /\ jobs'[n].status = "processing"
      /\ workerVars' # workerVars =>
           /\ Len(jobs') = Len(jobs)
           /\ \A n \in 1..Len(jobs) :
                 jobs[n].id \in SkippedIds(closure) \cup SkippedIds(closure')
                   => jobs'[n] = jobs[n] ]_vars

C30_Witness ==
  /\ isProcessingQueue /\ runs = 2 /\ jobIndex = 2
  /\ closure.jobs[1].status = "completed"
  /\ Len(jobs) = 2
  /\ jobs[1].status = "completed" /\ jobs[1].id = closure.jobs[1].id
  /\ jobs[2].status = "processing" /\ jobs[2].id = closure.jobs[2].id

(* the changes of status a job may make *)
StatusChanges ==
  {<<"queued", "processing">>, <<"processing", "completed">>,
   <<"processing", "error">>, <<"processing", "queued">>,
   <<"completed", "queued">>, <<"error", "queued">>}

(* C31: a job is created queued, and its status changes only from queued  *)
(* to processing when the worker picks it up, from processing to          *)
(* completed or error, from processing to queued when a stop has been     *)
(* requested, and from completed or error to queued by a retry of the     *)
(* user; so a job is completed or in error only after being processing.   *)
C31_StatusTransitions ==
  [][ \A m \in 1..Len(jobs') :
        LET new == jobs'[m]
        IN  IF new.id \in JobIds(jobs)
            THEN LET old == JobOf(jobs, new.id)
                 IN  \/ new.status = old.status
                     \/ /\ <<old.status, new.status>> \in StatusChanges
                        /\ new.status = "processing" =>
                             PicksUp /\ new.id = closure'.jobs[jobIndex'].id
                        /\ old.status = "processing" =>
                             /\ workerVars' # workerVars /\ new.id = CurId
                             /\ new.status = "queued" => stopRequest
                        /\ old.status \in {"completed", "error"} =>
                             workerVars' = workerVars
            ELSE new.status = "queued" ]_vars

C31_Witness ==
  /\ isProcessingQueue /\ runs = 2
  /\ \E k \in 1..Len(jobs) :
        /\ jobs[k].file = "blank"
        /\ jobs[k].status = "processing"
        /\ jobs[k].id = CurId

(* C32: a job leaves the list only when the user clears the list: a     *)
(* step that removes a job is a clear, made while no run is active; and   *)
(* while a run is active the jobs of the list stay the same jobs.         *)
C32_JobsRemovedOnlyByClear ==
  [][ /\ JobIds(jobs) \ JobIds(jobs') # {} =>
           /\ jobs' = <<>> /\ nextId' = nextId
           /\ ~isProcessingQueue
      /\ isProcessingQueue => JobIds(jobs') = JobIds(jobs) ]_vars

(* C33: a failed send is classified by what its message holds, in any    *)
(* case: an invalid key, else a rate limit or quota, else a safety block, *)
(* each with a message of its own; an error that is none of the three     *)
(* reaches the caller with its message as it was.                         *)
C33_SendErrorClassification ==
  probe.fn = "translateVttWithChat" =>
    LET low == toLowerCase(probe.message)
        key == Includes(low, "api key not valid")
        quota == Includes(low, "quota") \/ probe.json
        safety == Includes(low, "safety")
    IN  /\ key => probe.thrown = <<"Invalid API Key: ">>
        /\ (~key /\ quota) => probe.thrown = <<"RESOURCE_EXHAUSTED: ">>
        /\ (~key /\ ~quota /\ safety) =>
             probe.thrown = <<"Content Blocked: ">>
        /\ (~key /\ ~quota /\ ~safety) => probe.thrown = probe.message

(* the arrows of the first n chunks of a file *)
UnitsOfChunks(file, n) ==
  SumSeq([c \in 1..n |-> ChunkUnits(ChunksOf(file)[c])])

(* C34: the arrows of the chunks of a file sum to the arrows of the file, *)
(* and while a job is translated the accepted text holds exactly the      *)
(* arrows of the chunks accepted so far; so the text that reaches the     *)
(* validation of the document holds exactly the arrows of the original,   *)
(* the validation does not fail, and every completed job with cues has    *)
(* exactly as many arrows as its source.                                  *)
C34_AcceptedUnitsAreExact ==
  /\ \A f \in Files : UnitsOfChunks(f, Len(ChunksOf(f))) = InputUnits(f)
  /\ pc \in {"sending", "draining", "backoff"} =>
        countCues(finalTranslatedContent) = UnitsOfChunks(CurFile, i)
  /\ pc = "chunkDelay" =>
        countCues(finalTranslatedContent) = UnitsOfChunks(CurFile, i + 1)
  /\ \A k \in 1..Len(jobs) :
        /\ jobs[k].error.kind # "ValidationFailed"
        /\ (jobs[k].status = "completed"
              /\ Len(ChunksOf(jobs[k].file)) > 0) =>
             countCues(jobs[k].translatedVtt) = InputUnits(jobs[k].file)

C34_Witness ==
  \E k \in 1..Len(jobs) :
     /\ jobs[k].status = "completed"
     /\ jobs[k].file = "long"
     /\ countCues(jobs[k].translatedVtt) = CUES_PER_CHUNK + 1
     /\ HasMarker(jobs[k].translatedVtt)

(* C35: while no run is active no job is in processing: when a run ends, *)
(* stopped or not, every job it had set to processing is completed, in    *)
(* error or queued again.                                                 *)
C35_NoProcessingOutsideRun ==
  ~isProcessingQueue =>
    /\ pc = "idle"
    /\ \A k \in 1..Len(jobs) :
          jobs[k].status \in {"queued", "completed", "error"}

C35_Witness ==
  /\ ~isProcessingQueue /\ runs = 1 /\ notification = "stopped"
  /\ Len(jobs) = 1
  /\ jobs[1].file = "long"
  /\ Reverted(jobs[1])

TerminalNotifications == {"stopped", "error", "success"}

(* C36: when every await of the worker settles, every run that starts     *)
(* finishes: the processing flag goes down again, with the terminal       *)
(* notification of the run, whatever the jobs, the failures and the       *)
(* stop requests.                                                         *)
C36_EveryRunFinishes ==
  /\ isProcessingQueue ~> ~isProcessingQueue
  /\ [][(isProcessingQueue /\ ~isProcessingQueue') =>
          (runs' = runs /\ notification' \in TerminalNotifications)]_vars

C36_Witness ==
  /\ ~isProcessingQueue /\ runs = 1 /\ notification = "error"
  /\ Len(jobs) = 1
  /\ jobs[1].file = "long"
  /\ jobs[1].error.kind = "ChunkExhausted"

(* C37: a run that starts clears the stop flag and picks its first queued *)
(* job up, whatever stop was requested before, and the flag is raised     *)
(* only by a stop requested while a run is active: a stop left over from  *)
(* an earlier run neither cancels nor shortens a later run.               *)
C37_RunStartClearsStop ==
  [][/\ runs' # runs =>
          /\ ~stopRequest'
          /\ isProcessingQueue' /\ pc' = "readFile"
          /\ notification' = "processing"
     /\ (stopRequest' /\ ~stopRequest) =>
          isProcessingQueue /\ runs' = runs]_vars

(* the second run is under way and has come past its first job; the job   *)
(* it is about to pick up is the one the stop of the first run reverted   *)
C37_Witness ==
  /\ runs = 2 /\ isProcessingQueue /\ ~stopRequest
  /\ pc = "fileDelay"
  /\ Len(jobs) = 2
  /\ jobs[1].status = "error"
  /\ jobs[2].status = "queued" /\ jobs[2].translatedVtt = <<>>

(* what the rate-limit handling sets the delay to, from the value d0 the  *)
(* run started with                                                       *)
RaisedDelay(d0) == Min(d0 + ChunkDelayStep, ChunkDelayCap)

(* the step ends in the backoff of a rate-limit failure that is retried *)
RateLimitHandled ==
  /\ pc' = "backoff" /\ lastWait' # lastWait
  /\ lastFailure' # NoFailure /\ IsRateLimit(lastFailure'.error)

InArrivalOrder(text) ==
  \A n \in 1..Len(text) :
     text[n].kind = "frag" =>
       LET seg == Segment(text, text[n].chunk)
       IN  \E m \in 1..Len(seg) : seg[m] = text[n] /\ text[n].seq = m

(* the fragment was streamed by a call of the log that succeeded *)
OfSuccessfulCall(log, t) ==
  \E m \in 1..Len(log) :
     /\ log[m].chunk = t.chunk /\ log[m].attempt = t.attempt
     /\ log[m].result = "ok"

(* the fragment was streamed by the attempt under way *)
OfAttemptUnderWay(t) == t.chunk = i + 1 /\ t.attempt = attempt

(* C39: the accumulator holds the fragments of the attempt under way and  *)
(* no other, in arrival order; every fragment of the accepted text was    *)
(* streamed by the attempt that succeeded for its chunk, and so is every  *)
(* fragment of the output of a job when it completes, where the fragments *)
(* of each chunk are in arrival order: no fragment of a failed attempt is *)
(* in either.                                                             *)
C39_OnlyTheSuccessfulAttempt ==
  [][(isProcessingQueue /\ jobIndex > 0) =>
       /\ \A n \in 1..Len(chunkAccumulatedText) :
             /\ chunkAccumulatedText[n].kind = "frag"
             /\ OfAttemptUnderWay(chunkAccumulatedText[n])
             /\ chunkAccumulatedText[n].seq = n
       /\ \A n \in 1..Len(finalTranslatedContent) :
             finalTranslatedContent[n].kind = "frag" =>
               OfSuccessfulCall(calls, finalTranslatedContent[n])
       /\ InArrivalOrder(finalTranslatedContent)
       /\ JobCompletes =>
             \A j \in LiveCur(jobs') :
                LET text == Output(j)
                IN  /\ InArrivalOrder(text)
                    /\ \A n \in 1..Len(text) :
                          text[n].kind = "frag" =>
                            \/ OfSuccessfulCall(calls, text[n])
                            \/ /\ pc = "draining"
                               /\ OfAttemptUnderWay(text[n])]_vars

(* a job is completed whose second chunk was accepted at its third        *)
(* attempt and whose first chunk at its first                             *)
C39_Witness ==
  \E k \in 1..Len(jobs) :
     /\ jobs[k].status = "completed"
     /\ jobs[k].file = "long"
     /\ \E n \in 1..Len(jobs[k].translatedVtt) :
           /\ jobs[k].translatedVtt[n].kind = "frag"
           /\ jobs[k].translatedVtt[n].chunk = 2
           /\ jobs[k].translatedVtt[n].attempt = 3
     /\ \A n \in 1..Len(jobs[k].translatedVtt) :
           jobs[k].translatedVtt[n].kind = "frag" =>
             /\ jobs[k].translatedVtt[n].chunk = 1 =>
                  jobs[k].translatedVtt[n].attempt = 1
             /\ jobs[k].translatedVtt[n].chunk = 2 =>
                  jobs[k].translatedVtt[n].attempt = 3

(* the job of that id is retried by the step *)
Retried(id) ==
  \E k \in 1..Len(jobs) :
     /\ jobs[k].id = id /\ jobs[k].status = "error"
     /\ k <= Len(jobs') /\ jobs'[k].id = id /\ jobs'[k].status = "queued"

(* the job waits for the run the retry has scheduled, the run after run r *)
AwaitsRun(id, r) ==
  /\ needsProcessing /\ isApiKeySet /\ runs = r
  /\ id \in JobIds(jobs) /\ JobOf(jobs, id).status = "queued"

(* the job has left queued or the list, or run r + 1 is being stopped *)
PickedUp(id, r) ==
  \/ id \notin JobIds(jobs)
  \/ JobOf(jobs, id).status # "queued"
  \/ runs = r + 1 /\ isProcessingQueue /\ stopRequest

RetriedIds == 1..MaxJobs

(* C40: a retry sets the job to queued and schedules processing, leaving  *)
(* the worker as it is; a run starts only while no run is active; and,    *)
(* with the key set, a retried job is picked up by the next run, which    *)
(* starts by itself when no run is active or when the active run has      *)
(* finished, unless that run is stopped or the job is removed first.      *)
C40_RetrySchedulesRun ==
  /\ [][/\ \A id \in RetriedIds :
             Retried(id) => needsProcessing' /\ UNCHANGED workerVars
                              /\ isProcessingQueue' = isProcessingQueue
        /\ runs' # runs => ~isProcessingQueue]_vars
  /\ \A id \in RetriedIds : \A r \in 1..(MaxRuns - 1) :
        AwaitsRun(id, r) ~> PickedUp(id, r)

(* the file with no content has failed and has been retried, and the      *)
(* effect has started the second run, which is reading it again           *)
C40_Witness ==
  /\ runs = 2 /\ isProcessingQueue /\ ~needsProcessing
  /\ pc = "readFile"
  /\ Len(jobs) = 1
  /\ jobs[1].file = "blank" /\ jobs[1].status = "processing"

====
